---- MODULE Spec2Model ----
(***************************************************************************)
(* Model of the mechanical-refactor pipeline: main's per-file loop with    *)
(* its build-retry loop (src/src/index.ts, newest revision, lines 211-394) *)
(* and the request helpers createSession / modifyFile / sendFollowUp /     *)
(* extractCode (src/test/Example.cs, lines 23-135).                         *)
(*                                                                         *)
(* Spec follows main from the file list it ends up with; FilterSpec        *)
(* follows the build filter that comes before; ExtractSpec and             *)
(* BuildErrorsSpec apply extractCode and getBuildErrors to inputs of       *)
(* their own.                                                              *)
(*                                                                         *)
(* Text is a sequence of one-character strings, so that extractCode's      *)
(* regular expression and trimEnd are computed character by character.     *)
(***************************************************************************)
EXTENDS Integers, Sequences, FiniteSets, TLC

(* ----------------------------- bounds ---------------------------------- *)
\* number of input files main resolves (0..MaxFiles)
MaxFiles == 2
\* number of fragments the relays of one run write plus foreign deltas they drop
MaxEvents == 2

(* ------------------------ program constants ---------------------------- *)
\* const maxRetries = 3;
maxRetries == 3

(* ------------------------------ text ----------------------------------- *)
NL == "\n"
\* the grave accent U+0060 (the lexer of TLA+ admits none inside a string)
Tick == "U+0060"
\* the block-fence marker: three grave accents
Fence == <<Tick, Tick, Tick>>

\* JavaScript \s and the characters String.prototype.trimEnd removes
IsWs(c) == c \in {" ", "\t", "\n", "\r"}

HasAt(t, i, pat) ==
  /\ i >= 1
  /\ i + Len(pat) - 1 <= Len(t)
  /\ SubSeq(t, i, i + Len(pat) - 1) = pat

\* String.prototype.trimEnd
RECURSIVE trimEnd(_)
trimEnd(t) ==
  IF t = <<>> THEN <<>>
  ELSE IF IsWs(t[Len(t)]) THEN trimEnd(SubSeq(t, 1, Len(t) - 1))
  ELSE t

\* textParts.join("\n")
RECURSIVE JoinNL(_)
JoinNL(ts) ==
  IF ts = <<>> THEN <<>>
  ELSE IF Len(ts) = 1 THEN ts[1]
  ELSE ts[1] \o <<NL>> \o JoinNL(Tail(ts))

\* the alternation (?:csharp|cs)? in the order the regex engine tries it
FenceTags == << <<"c", "s", "h", "a", "r", "p">>, <<"c", "s">>, <<>> >>

\* first position >= j that holds no whitespace (Len(t)+1 when there is none)
RECURSIVE WsEnd(_, _)
WsEnd(t, j) ==
  IF j > Len(t) THEN j
  ELSE IF IsWs(t[j]) THEN WsEnd(t, j + 1)
  ELSE j

\* positions of the closing fence reachable from body start b
CloseAt(t, b) == {q \in b..Len(t) : HasAt(t, q, Fence)}

\* \s*\n after the tag ending before j: the newline positions of the
\* whitespace run that leave a closing fence to the right
NewlinesAt(t, j) ==
  {p \in j..(WsEnd(t, j) - 1) : t[p] = NL /\ CloseAt(t, p + 1) # {}}

\* one attempt of the regex at start i with tag k of FenceTags
TagMatches(t, i, k) ==
  /\ HasAt(t, i, Fence \o FenceTags[k])
  /\ NewlinesAt(t, i + Len(Fence) + Len(FenceTags[k])) # {}

Max(S) == CHOOSE x \in S : \A y \in S : y <= x
Min(S) == CHOOSE x \in S : \A y \in S : x <= y

\* text.match(/FENCE(?:csharp|cs)?\s*\n([\s\S]*?)FENCE/): the set of start
\* positions at which some alternative matches
MatchStarts(t) == {i \in 1..Len(t) : \E k \in 1..Len(FenceTags) : TagMatches(t, i, k)}

\* match[1]: leftmost start, first alternative, greedy \s*, lazy body
MatchGroup(t) ==
  LET i == Min(MatchStarts(t))
      k == Min({kk \in 1..Len(FenceTags) : TagMatches(t, i, kk)})
      p == Max(NewlinesAt(t, i + Len(Fence) + Len(FenceTags[k])))
      q == Min(CloseAt(t, p + 1))
  IN SubSeq(t, p + 1, q - 1)

\* the text of the parts extractCode keeps: part.type === "text" && part.text
TextOf(parts) ==
  LET kept == SelectSeq(parts, LAMBDA part : part.type = "text" /\ part.text # <<>>)
  IN JoinNL([n \in 1..Len(kept) |-> kept[n].text])

extractCode(parts) ==
  LET text == TextOf(parts)
  IN IF MatchStarts(text) # {}
       THEN trimEnd(MatchGroup(text)) \o <<NL>>
       ELSE trimEnd(text) \o <<NL>>

(* ----------------------- compiler diagnostics -------------------------- *)
\* the character at position k, "" beyond the ends
At(t, k) == IF k \in 1..Len(t) THEN t[k] ELSE ""

IsDigit(c) == c \in {"0", "1", "2", "3", "4", "5", "6", "7", "8", "9"}
\* the characters the dot of a regular expression does not match
IsLineTerminator(c) == c \in {"\n", "\r"}

\* first position >= j that holds no digit
RECURSIVE DigitsEnd(_, _)
DigitsEnd(t, j) ==
  IF j > Len(t) THEN j
  ELSE IF IsDigit(t[j]) THEN DigitsEnd(t, j + 1)
  ELSE j

\* first position >= j that holds a line terminator (Len(t)+1 when there is none)
RECURSIVE TermAt(_, _)
TermAt(t, j) ==
  IF j > Len(t) THEN j
  ELSE IF IsLineTerminator(t[j]) THEN j
  ELSE TermAt(t, j + 1)

\* \.cs[\[(]\d+[,;]\d+[\])]\s*:\s*error\s tried at position j: the position of
\* the character matched by the last \s, 0 when the pattern fails there
LocEnd(t, j) ==
  LET d1 == DigitsEnd(t, j + 4)
      d2 == DigitsEnd(t, d1 + 1)
      w1 == WsEnd(t, d2 + 1)
      w2 == WsEnd(t, w1 + 1)
  IN IF /\ HasAt(t, j, <<".", "c", "s">>)
        /\ At(t, j + 3) \in {"[", "("}
        /\ d1 > j + 4
        /\ At(t, d1) \in {",", ";"}
        /\ d2 > d1 + 1
        /\ At(t, d2) \in {"]", ")"}
        /\ At(t, w1) = ":"
        /\ HasAt(t, w2, <<"e", "r", "r", "o", "r">>)
        /\ IsWs(At(t, w2 + 5))
       THEN w2 + 5
       ELSE 0

\* ^\s*(.*\.cs ...: the positions of \.cs at which the line matches; the
\* leading \s* takes the whole blank run, the dot crosses no line terminator
LocStarts(line) ==
  LET s == WsEnd(line, 1)
      e == TermAt(line, s)
  IN {j \in s..(e - 1) : line[j] = "." /\ LocEnd(line, j) > 0}

\* match[1] of getBuildErrors' expression: from the end of the leading blanks
\* to the end of the trailing .*
ErrorMatch(line) ==
  LET s == WsEnd(line, 1)
      j == Max(LocStarts(line))
  IN SubSeq(line, s, TermAt(line, LocEnd(line, j) + 1) - 1)

\* match[1] of getBuildErrorFiles' expression: the greedy (.*\.cs)
ErrorFileMatch(line) ==
  LET s == WsEnd(line, 1)
      j == Max(LocStarts(line))
  IN SubSeq(line, s, j + 2)

\* str.split(/[\[(]/)[0]
RECURSIVE BracketAt(_, _)
BracketAt(t, j) ==
  IF j > Len(t) THEN j
  ELSE IF t[j] \in {"[", "("} THEN j
  ELSE BracketAt(t, j + 1)
BeforeBracket(t) == SubSeq(t, 1, BracketAt(t, 1) - 1)

\* output.split("\n")
RECURSIVE NewlineAt(_, _)
NewlineAt(t, j) ==
  IF j > Len(t) THEN j
  ELSE IF t[j] = NL THEN j
  ELSE NewlineAt(t, j + 1)

RECURSIVE SplitNL(_)
SplitNL(t) ==
  LET n == NewlineAt(t, 1)
  IN IF n > Len(t) THEN <<t>>
     ELSE <<SubSeq(t, 1, n - 1)>> \o SplitNL(SubSeq(t, n + 1, Len(t)))

\* String.prototype.trim
trim(t) == LET e == trimEnd(t) IN SubSeq(e, WsEnd(e, 1), Len(e))

\* process.cwd()
Cwd == <<"/", "w">>
\* path.resolve on paths without ".", ".." and doubled or trailing separators:
\* an absolute path is kept, a relative one is put under the working directory
resolve(path) ==
  IF path # <<>> /\ path[1] = "/" THEN path
  ELSE IF path = <<>> THEN Cwd
  ELSE Cwd \o <<"/">> \o path

\* getBuildErrors, applied to the output its dotnet build produced
getBuildErrors(output, filePath) ==
  LET resolved == resolve(filePath)
      lines == SplitNL(output)
      kept == SelectSeq(lines, LAMBDA line :
                /\ LocStarts(line) # {}
                /\ resolve(BeforeBracket(ErrorMatch(line))) = resolved)
  IN [n \in 1..Len(kept) |-> trim(kept[n])]

\* getBuildErrorFiles, applied to the output its dotnet build produced: errorFiles
getBuildErrorFiles(output) ==
  LET lines == SplitNL(output)
  IN {resolve(ErrorFileMatch(lines[n])) : n \in {m \in 1..Len(lines) : LocStarts(lines[m]) # {}}}

(* --------------------------- collaborators ----------------------------- *)
\* the files main resolved, by position in the list files
Files == 1..MaxFiles
\* session ids the service hands out (data.id); 0 is an id of no session of this run
Sessions == 1..MaxFiles
ForeignSession == 0

\* content of the input files before the run
Orig(f) == IF f % 2 = 1 THEN <<"A", NL>> ELSE <<"B", NL>>

TextPart(t) == [type |-> "text", text |-> t]
FilePart == [type |-> "file"]

\* data.parts of the responses the service may give to a prompt
Responses ==
  { <<TextPart(Fence \o <<"c", "s", "h", "a", "r", "p", NL, "A", NL>> \o Fence)>>,
    <<FilePart, TextPart(<<"o", "k">>), TextPart(Fence \o <<"c", "s", NL, "B", " ", NL>> \o Fence)>>,
    <<TextPart(<<"C">>)>> }

\* "data" of a response that carries none
NoData == [present |-> FALSE, parts |-> <<>>]
Data(parts) == [present |-> TRUE, parts |-> parts]

\* the absolute path of the file at position f of files (0: a file not in it)
FilePath(f) ==
  CASE f = 0 -> <<"/", "Z", ".", "c", "s">>
    [] f % 2 = 1 -> <<"/", "A", ".", "c", "s">>
    [] OTHER -> <<"/", "B", ".", "c", "s">>

\* one diagnostic of dotnet build: the path it reports, how its location is
\* written ("paren", "bracket", or "indented": blanks, then paren) and its severity
BuildLine(path, style, sev) == [file |-> path, style |-> style, sev |-> sev]

\* the line MSBuild prints for a diagnostic
RenderLine(d) ==
  (IF d.style = "indented" THEN <<" ", " ">> ELSE <<>>)
    \o d.file
    \o (IF d.style = "bracket" THEN <<"[", "1", "0", ",", "5", "]">>
                                ELSE <<"(", "1", "0", ",", "5", ")">>)
    \o <<":", " ">>
    \o (IF d.sev = "error" THEN <<"e", "r", "r", "o", "r">>
                            ELSE <<"w", "a", "r", "n", "i", "n", "g">>)
    \o <<" ", "X">>

\* the text of a build that reports the diagnostics ds
BuildText(ds) == JoinNL([n \in 1..Len(ds) |-> RenderLine(ds[n])])

\* outputs of one dotnet build, seen from the file f under repair
OutputsAbout(f) ==
  { BuildText(<<BuildLine(FilePath(f), "paren", "warning"),
                BuildLine(FilePath(0), "paren", "error")>>),
    BuildText(<<BuildLine(FilePath(f), "bracket", "error")>>),
    BuildText(<<BuildLine(FilePath(f), "paren", "error"),
                BuildLine(FilePath(0), "paren", "error"),
                BuildLine(FilePath(f), "indented", "error")>>) }
BuildOutputsByFile == [f \in 0..MaxFiles |-> OutputsAbout(f)]
BuildOutputs(f) == BuildOutputsByFile[f]

\* what getBuildErrors returns for file f on each of these outputs
BuildErrorsByFile ==
  [f \in Files |-> [output \in BuildOutputs(f) |-> getBuildErrors(output, FilePath(f))]]

\* events the process-wide feed may deliver
DeltaType == "message.part.delta"
Event(obj, type, props, sid) == [obj |-> obj, type |-> type, props |-> props, sessionID |-> sid]
Events ==
  {Event(FALSE, "", FALSE, ForeignSession), Event(TRUE, DeltaType, FALSE, ForeignSession)}
    \cup {Event(TRUE, DeltaType, TRUE, s) : s \in Sessions \cup {ForeignSession}}
    \cup {Event(TRUE, "session.idle", TRUE, s) : s \in Sessions}

(* ------------------------------- state --------------------------------- *)
VARIABLES
  opts,          \* program.opts(): dryRun, retryBuild (buildFilter and buildOutput
                 \* where main's build filter is followed)
  nfiles,        \* files.length
  pc,            \* where main stands
  i,             \* the loop index of main (1-based)
  disk,          \* the filesystem: content of each input file
  fileContents,  \* const fileContents
  sessionId,     \* const sessionId
  modified,      \* let modified
  attempt,       \* let attempt
  rpc,           \* where modifyFile / sendFollowUp stands
  call,          \* what the current request has done so far
  data,          \* const { data } of the prompt
  relay,         \* the request's streamDone task
  lingering,     \* the kinds <<session id, handled>> of relay tasks that still
                 \* iterate their feed after their request ended
  stdout,        \* fragments written to process.stdout by relay tasks
  foreignDropped,\* delivered delta events of another session that were not forwarded
  followUps,     \* sendFollowUp calls per file
  writes,        \* writeFileSync calls that succeeded, per file
  checks,        \* getBuildErrors calls per file
  report,        \* last console report per file
  caught,        \* the catch block of the per-file try ran for the file
  history,       \* per file: what happened (failures, order of writes and checks)
  fatal,         \* why the process exited early ("" while it has not)
  arg,           \* the argument of a function that is applied on its own
  ret            \* what that function returned

vars == <<opts, nfiles, pc, i, disk, fileContents, sessionId, modified, attempt,
          rpc, call, data, relay, lingering, stdout, foreignDropped,
          followUps, writes, checks, report, caught, history, fatal, arg, ret>>

\* what no step of a run of main changes
fixedVars == <<opts, nfiles, arg, ret>>

mainVars == <<fixedVars, pc, i, disk, fileContents, sessionId, modified, attempt,
              rpc, call, data, followUps, writes, checks, report, caught, history>>

NoCall == [kind |-> "none", sub |-> "none", prompt |-> "none", result |-> "none"]
NewCall(kind) == [kind |-> kind, sub |-> "pending", prompt |-> "notSent", result |-> "pending"]

NoHistory ==
  [transportFailed |-> FALSE,  \* session creation or a prompt request failed
   rewrite |-> "none",         \* modifyFile returned: "same" as the original or "differs"
   writesAtFirstCheck |-> 0,   \* writes done when getBuildErrors first ran
   lastCheck |-> "none",       \* result of the last getBuildErrors: "clean" / "errors"
   finalCheck |-> FALSE,       \* the check after the last attempt ran
   writesAtLastCheck |-> 0,    \* writes done when getBuildErrors last ran
   outcomes |-> 0,             \* "Build succeeded." / "Still N error(s)" lines printed
   sessions |-> <<>>,          \* the ids createSession returned for the file, in order
   promptSessions |-> {}]      \* the sessionID values its prompt requests carried

\* the state of the per-file loop and of the feed before main runs
InitRun ==
  /\ i = 0
  /\ disk = [f \in Files |-> Orig(f)]
  /\ fileContents = <<>>
  /\ sessionId = ForeignSession
  /\ modified = <<>>
  /\ attempt = 0
  /\ rpc = "idle"
  /\ call = NoCall
  /\ data = NoData
  /\ relay = "none"
  /\ lingering = {}
  /\ stdout = <<>>
  /\ foreignDropped = 0
  /\ followUps = [f \in Files |-> 0]
  /\ writes = [f \in Files |-> 0]
  /\ checks = [f \in Files |-> 0]
  /\ report = [f \in Files |-> "none"]
  /\ caught = [f \in Files |-> FALSE]
  /\ history = [f \in Files |-> NoHistory]
  /\ fatal = ""

Init ==
  /\ opts \in [dryRun : BOOLEAN, retryBuild : BOOLEAN]
  /\ nfiles \in 0..MaxFiles
  /\ pc = "start"
  /\ arg = <<>>
  /\ ret = <<>>
  /\ InitRun

(* ------------------------- decisions of main --------------------------- *)
\* a comparison that trims the original first
SameContentTrimmed(original, rewritten) == trimEnd(original) = rewritten

\* if (fileContents === modified)
SameContent(original, rewritten) == original = rewritten

\* an option read under a name commander never sets
PreviewIgnored(o) == FALSE

\* if (opts.dryRun)
Preview(o) == o.dryRun

\* if (opts.retryBuild)
RetryConfigured(o) == o.retryBuild

\* a loop test that is off by one
LoopCondOffByOne(att) == att <= maxRetries + 1

\* for (...; attempt <= maxRetries; ...)
LoopCond(att) == att <= maxRetries

\* a loop that never runs the final check
LastAttemptNever(att) == FALSE

\* a final check that runs after every retry
LastAttemptAlways(att) == TRUE

\* if (attempt === maxRetries)
LastAttempt(att) == att = maxRetries

\* a loop body that never takes the break
BuildCleanNeverBreaks(errors) == FALSE

\* if (errors.length === 0)
BuildClean(errors) == Len(errors) = 0

(* ----------------------- the prompt's session -------------------------- *)
\* a client that keeps sending to the session of the first file
PromptSessionOfFirstFile(sid) == 1

\* client.session.prompt({ sessionID: sessionId, ... })
PromptSession(sid) == sid

(* ------------------------- the relay's filter -------------------------- *)
\* a filter that leaves out the comparison of the session ids
ForwardsAnySession(e, sid) ==
  /\ e.obj
  /\ e.type = DeltaType
  /\ e.props

\* the body of "for await (const event of stream)": does it write the delta?
Forwards(e, sid) ==
  /\ e.obj
  /\ e.type = DeltaType
  /\ e.props
  /\ e.sessionID = sid

(* ------------------------------ helpers -------------------------------- *)
Bump(fn, f) == [fn EXCEPT ![f] = @ + 1]
Hist(field, v) == [history EXCEPT ![i] = [@ EXCEPT ![field] = v]]

\* the end of one iteration of the per-file loop: i++ and the loop test
Leave ==
  /\ pc' = IF i < nfiles THEN "readFile" ELSE "done"
  /\ i' = IF i < nfiles THEN i + 1 ELSE i
  /\ fileContents' = <<>>
  /\ sessionId' = ForeignSession
  /\ modified' = <<>>
  /\ attempt' = 0
  /\ call' = NoCall
  /\ data' = NoData

\* process.exit / the rejection of main(): nothing runs afterwards
Exit(cause) ==
  /\ pc' = "fatal"
  /\ fatal' = cause

feedVars == <<relay, lingering, stdout, foreignDropped>>
countVars == <<followUps, writes, checks>>
localVars == <<fileContents, sessionId, modified, attempt>>

(* ------------------------------- main ---------------------------------- *)
\* readFileSync(resolve(opts.promptFile)) throws: main rejects, exit(1)
StartPromptUnreadable ==
  /\ pc = "start"
  /\ Exit("promptFile")
  /\ UNCHANGED <<fixedVars, i, disk, localVars, rpc, call, data, feedVars,
                 countVars, report, caught, history>>

\* if (files.length === 0) process.exit(1)
StartNoFiles ==
  /\ pc = "start"
  /\ nfiles = 0
  /\ Exit("noFiles")
  /\ UNCHANGED <<fixedVars, i, disk, localVars, rpc, call, data, feedVars,
                 countVars, report, caught, history>>

StartOk ==
  /\ pc = "start"
  /\ nfiles > 0
  /\ i' = 1
  /\ pc' = "readFile"
  /\ UNCHANGED <<fixedVars, disk, localVars, rpc, call, data, feedVars,
                 countVars, report, caught, history, fatal>>

\* const fileContents = readFileSync(filePath); then createSession is called
ReadFileOk ==
  /\ pc = "readFile"
  /\ fileContents' = disk[i]
  /\ pc' = "createSession"
  /\ UNCHANGED <<fixedVars, i, disk, sessionId, modified, attempt, rpc, call,
                 data, feedVars, countVars, report, caught, history, fatal>>

\* readFileSync(filePath) throws outside the try block: main rejects
ReadFileThrows ==
  /\ pc = "readFile"
  /\ Exit("readFile")
  /\ UNCHANGED <<fixedVars, i, disk, localVars, rpc, call, data, feedVars,
                 countVars, report, caught, history>>

\* createSession resolves with data.id; modifyFile is entered and awaits subscribe
CreateSessionOk ==
  /\ pc = "createSession"
  /\ sessionId' = i
  /\ pc' = "modifyFile"
  /\ rpc' = "subscribe"
  /\ call' = NewCall("modifyFile")
  /\ history' = Hist("sessions", Append(history[i].sessions, i))
  /\ UNCHANGED <<fixedVars, i, disk, fileContents, modified, attempt, data,
                 feedVars, countVars, report, caught, fatal>>

\* client.session.create() rejects or yields no data: thrown outside the try block
CreateSessionFails ==
  /\ pc = "createSession"
  /\ Exit("createSession")
  /\ history' = Hist("transportFailed", TRUE)
  /\ UNCHANGED <<fixedVars, i, disk, localVars, rpc, call, data, feedVars,
                 countVars, report, caught>>

(* -------------------- modifyFile and sendFollowUp ---------------------- *)
InCall == pc \in {"modifyFile", "sendFollowUp"}

\* the relay task of a request that is over keeps iterating its feed; handled
\* tells whether Promise.race attached a handler to streamDone
Linger(handled) ==
  IF relay = "running"
    THEN lingering \cup {<<sessionId, handled>>}
    ELSE lingering

\* await client.event.subscribe() resolves: streamDone starts, the prompt is sent
\* with the session id the function was given
SubscribeOk ==
  /\ InCall /\ rpc = "subscribe"
  /\ relay' = "running"
  /\ call' = [call EXCEPT !.sub = "ok", !.prompt = "pending"]
  /\ rpc' = "prompt"
  /\ history' = Hist("promptSessions",
                     history[i].promptSessions \cup {PromptSession(sessionId)})
  /\ UNCHANGED <<fixedVars, pc, i, disk, localVars, data, lingering, stdout,
                 foreignDropped, countVars, report, caught, fatal>>

\* await client.event.subscribe() rejects: the function throws before the prompt
SubscribeThrows ==
  /\ InCall /\ rpc = "subscribe"
  /\ call' = [call EXCEPT !.sub = "failed", !.result = "threw"]
  /\ rpc' = "idle"
  /\ pc' = "catch"
  /\ UNCHANGED <<fixedVars, i, disk, localVars, data, feedVars, countVars,
                 report, caught, history, fatal>>

\* await client.event.subscribe() never settles
SubscribeHangs ==
  /\ InCall /\ rpc = "subscribe"
  /\ call' = [call EXCEPT !.sub = "hung"]
  /\ rpc' = "subHung"
  /\ UNCHANGED <<fixedVars, pc, i, disk, localVars, data, feedVars, countVars,
                 report, caught, history, fatal>>

\* await client.session.prompt(...) resolves with data
PromptData(r) ==
  /\ InCall /\ rpc = "prompt"
  /\ data' = Data(r)
  /\ call' = [call EXCEPT !.prompt = "data"]
  /\ rpc' = "race"
  /\ UNCHANGED <<fixedVars, pc, i, disk, localVars, feedVars, countVars,
                 report, caught, history, fatal>>

\* await client.session.prompt(...) resolves without data
PromptNoData ==
  /\ InCall /\ rpc = "prompt"
  /\ data' = NoData
  /\ call' = [call EXCEPT !.prompt = "nodata"]
  /\ rpc' = "race"
  /\ UNCHANGED <<fixedVars, pc, i, disk, localVars, feedVars, countVars,
                 report, caught, history, fatal>>

\* await client.session.prompt(...) rejects: the function throws, streamDone is
\* left without any handler
PromptThrows ==
  /\ InCall /\ rpc = "prompt"
  /\ call' = [call EXCEPT !.prompt = "threw", !.result = "threw"]
  /\ lingering' = Linger(FALSE)
  /\ relay' = "none"
  /\ rpc' = "idle"
  /\ pc' = "catch"
  /\ history' = Hist("transportFailed", TRUE)
  /\ UNCHANGED <<fixedVars, i, disk, localVars, data, stdout,
                 foreignDropped, countVars, report, caught, fatal>>

\* after the race: if (!data) throw ...; return extractCode(data.parts)
AfterRace ==
  /\ rpc' = "idle"
  /\ relay' = "none"
  /\ lingering' = Linger(TRUE)
  /\ IF ~data.present
       THEN /\ call' = [call EXCEPT !.result = "threw"]
            /\ pc' = "catch"
            /\ history' = Hist("transportFailed", TRUE)
            /\ UNCHANGED modified
       ELSE /\ call' = [call EXCEPT !.result = "returned"]
            /\ modified' = extractCode(data.parts)
            /\ pc' = IF pc = "modifyFile" THEN "compare" ELSE "writeRetry"
            /\ history' = IF pc = "modifyFile"
                             THEN Hist("rewrite", IF extractCode(data.parts) = fileContents
                                                    THEN "same" ELSE "differs")
                             ELSE history
  /\ UNCHANGED <<fixedVars, i, disk, fileContents, sessionId, attempt, data,
                 stdout, foreignDropped, countVars, report, caught, fatal>>

\* Promise.race is won by streamDone: the feed was exhausted
RaceStreamDone ==
  /\ InCall /\ rpc = "race"
  /\ relay = "ended"
  /\ AfterRace

\* Promise.race is won by setTimeout(r, 1000): streamDone is still iterating
RaceTimeout ==
  /\ InCall /\ rpc = "race"
  /\ relay = "running"
  /\ AfterRace

\* streamDone rejected: Promise.race rejects and the function throws
RaceRejects ==
  /\ InCall /\ rpc = "race"
  /\ relay = "failed"
  /\ call' = [call EXCEPT !.result = "threw"]
  /\ relay' = "none"
  /\ rpc' = "idle"
  /\ pc' = "catch"
  /\ UNCHANGED <<fixedVars, i, disk, localVars, data, lingering, stdout,
                 foreignDropped, countVars, report, caught, history, fatal>>

(* ------------------- main: what follows the request -------------------- *)
\* if (fileContents === modified) { console.log("  No changes."); continue; }
NoChanges ==
  /\ pc = "compare"
  /\ SameContent(fileContents, modified)
  /\ report' = [report EXCEPT ![i] = "nochange"]
  /\ Leave
  /\ UNCHANGED <<fixedVars, disk, rpc, feedVars, countVars, caught, history, fatal>>

\* if (opts.dryRun) { ...print the would-be content... }
DryRunPrint ==
  /\ pc = "compare"
  /\ ~SameContent(fileContents, modified)
  /\ Preview(opts)
  /\ report' = [report EXCEPT ![i] = "dryrun"]
  /\ Leave
  /\ UNCHANGED <<fixedVars, disk, rpc, feedVars, countVars, caught, history, fatal>>

\* else { writeFileSync(filePath, modified) ... : the branch is taken
Changed ==
  /\ pc = "compare"
  /\ ~SameContent(fileContents, modified)
  /\ ~Preview(opts)
  /\ pc' = "write"
  /\ UNCHANGED <<fixedVars, i, disk, localVars, rpc, call, data, feedVars,
                 countVars, report, caught, history, fatal>>

\* writeFileSync succeeds, "Written."; if (opts.retryBuild) the loop starts at 1
WriteOk ==
  /\ pc = "write"
  /\ disk' = [disk EXCEPT ![i] = modified]
  /\ writes' = Bump(writes, i)
  /\ report' = [report EXCEPT ![i] = "written"]
  /\ IF RetryConfigured(opts) /\ LoopCond(1)
       THEN /\ attempt' = 1
            /\ pc' = "check"
            /\ UNCHANGED <<i, fileContents, sessionId, modified, call, data>>
       ELSE Leave
  /\ UNCHANGED <<fixedVars, rpc, feedVars, followUps, checks, caught, history, fatal>>

\* writeFileSync throws inside the try block
WriteThrows ==
  /\ pc \in {"write", "writeRetry"}
  /\ pc' = "catch"
  /\ UNCHANGED <<fixedVars, i, disk, localVars, rpc, call, data, feedVars,
                 countVars, report, caught, history, fatal>>

\* the head of the loop body: const errors = getBuildErrors(...); zero errors
\* break; otherwise the follow-up is built and sendFollowUp awaits subscribe
Check(output) ==
  /\ pc = "check"
  /\ checks' = Bump(checks, i)
  /\ LET errors == BuildErrorsByFile[i][output]
         first == checks[i] = 0
         h0 == [history[i] EXCEPT !.lastCheck = IF Len(errors) = 0 THEN "clean"
                                                                    ELSE "errors",
                                  !.writesAtLastCheck = writes[i]]
         h1 == IF first THEN [h0 EXCEPT !.writesAtFirstCheck = writes[i]] ELSE h0
     IN IF BuildClean(errors)
          THEN /\ report' = [report EXCEPT ![i] = "succeeded"]
               /\ history' = [history EXCEPT ![i] = [h1 EXCEPT !.outcomes = @ + 1]]
               /\ Leave
               /\ UNCHANGED <<rpc, followUps>>
          ELSE /\ report' = [report EXCEPT ![i] = "errors"]
               /\ history' = [history EXCEPT ![i] = h1]
               /\ followUps' = Bump(followUps, i)
               /\ pc' = "sendFollowUp"
               /\ rpc' = "subscribe"
               /\ call' = NewCall("sendFollowUp")
               /\ UNCHANGED <<i, localVars, data>>
  /\ UNCHANGED <<fixedVars, disk, feedVars, writes, caught, fatal>>

\* modified = await sendFollowUp(...); writeFileSync(filePath, modified);
\* "Written retry."; then the final check is due, or attempt++ and the loop test
WriteRetryOk ==
  /\ pc = "writeRetry"
  /\ disk' = [disk EXCEPT ![i] = modified]
  /\ writes' = Bump(writes, i)
  /\ report' = [report EXCEPT ![i] = "writtenRetry"]
  /\ IF LastAttempt(attempt)
       THEN /\ pc' = "finalCheck"
            /\ UNCHANGED <<i, localVars, call, data>>
       ELSE IF LoopCond(attempt + 1)
         THEN /\ attempt' = attempt + 1
              /\ pc' = "check"
              /\ UNCHANGED <<i, fileContents, sessionId, modified, call, data>>
         ELSE Leave
  /\ UNCHANGED <<fixedVars, rpc, feedVars, followUps, checks, caught, history, fatal>>

\* if (attempt === maxRetries) { const remaining = getBuildErrors(...); ... }
\* then attempt++ and the loop test
FinalCheck(output) ==
  /\ pc = "finalCheck"
  /\ checks' = Bump(checks, i)
  /\ LET remaining == BuildErrorsByFile[i][output]
     IN /\ report' = [report EXCEPT ![i] =
                        IF Len(remaining) > 0 THEN "still" ELSE "succeeded"]
        /\ history' = [history EXCEPT ![i] =
                         [@ EXCEPT !.finalCheck = TRUE,
                                   !.writesAtLastCheck = writes[i],
                                   !.outcomes = @ + 1,
                                   !.lastCheck = IF Len(remaining) > 0
                                                   THEN "errors" ELSE "clean"]]
  /\ IF LoopCond(attempt + 1)
       THEN /\ attempt' = attempt + 1
            /\ pc' = "check"
            /\ UNCHANGED <<i, fileContents, sessionId, modified, call, data>>
       ELSE Leave
  /\ UNCHANGED <<fixedVars, disk, rpc, feedVars, followUps, writes, caught, fatal>>

\* catch (err) { console.error(`  Error processing ${filePath}:`, err); }
Catch ==
  /\ pc = "catch"
  /\ caught' = [caught EXCEPT ![i] = TRUE]
  /\ report' = [report EXCEPT ![i] = "error"]
  /\ Leave
  /\ UNCHANGED <<fixedVars, disk, rpc, feedVars, countVars, history, fatal>>

(* ------------------------- the relay tasks ----------------------------- *)
\* main is suspended in an await (or has returned): only then do the relay
\* tasks, which share its event loop, get to run
AtAwait == pc \in {"createSession", "modifyFile", "sendFollowUp", "done"}

\* what the model follows of the feed: the fragments relays wrote and the
\* foreign deltas they dropped (an event dropped otherwise leaves no trace);
\* k is what one more event would add to them
FeedBudget(k) == Len(stdout) + foreignDropped + k <= MaxEvents

\* the relay tasks that iterate a subscription of the feed, as pairs <<session
\* id of the request, the race of the request has completed>>: those of earlier
\* requests in a fixed order (one per kind), then that of the request in progress
KindOrder == [n \in 1..(2 * MaxFiles) |-> <<(n + 1) \div 2, n % 2 = 0>>]
LiveRelays ==
  SelectSeq(KindOrder, LAMBDA k : k \in lingering)
    \o (IF relay = "running" THEN << <<sessionId, FALSE>> >> ELSE <<>>)

\* the number that tells the events written to stdout apart
NextEventId == IF stdout = <<>> THEN 1 ELSE stdout[Len(stdout)].event + 1

\* the service publishes an event: the feed is process-wide, so every live
\* subscription yields it, and each relay task runs one turn of
\* "for await (const event of stream)" on it with the session id of its request
FeedEvent(e) ==
  /\ AtAwait /\ LiveRelays # <<>>
  /\ LET writers == SelectSeq(LiveRelays, LAMBDA k : Forwards(e, k[1]))
         dropped == IF /\ e.obj /\ e.type = DeltaType /\ e.props
                       /\ \E n \in DOMAIN LiveRelays :
                            ~Forwards(e, LiveRelays[n][1]) /\ e.sessionID # LiveRelays[n][1]
                      THEN 1 ELSE 0
     IN /\ FeedBudget(Len(writers) + dropped)
        /\ stdout' = stdout \o
             [n \in 1..Len(writers) |->
                [relaySid |-> writers[n][1], type |-> e.type,
                 sessionID |-> e.sessionID, props |-> e.props,
                 raceDone |-> writers[n][2], event |-> NextEventId]]
        /\ foreignDropped' = foreignDropped + dropped
  /\ UNCHANGED <<mainVars, relay, lingering, fatal>>

\* the service closes the feed: the for-await loop ends, streamDone resolves
FeedClose ==
  /\ AtAwait /\ relay = "running"
  /\ relay' = "ended"
  /\ UNCHANGED <<mainVars, lingering, stdout, foreignDropped, fatal>>

FeedCloseLingering(k) ==
  /\ AtAwait /\ k \in lingering
  /\ lingering' = lingering \ {k}
  /\ UNCHANGED <<mainVars, relay, stdout, foreignDropped, fatal>>

\* iterating the feed throws: streamDone rejects
FeedFail ==
  /\ AtAwait /\ relay = "running"
  /\ relay' = "failed"
  /\ UNCHANGED <<mainVars, lingering, stdout, foreignDropped, fatal>>

\* streamDone rejects while the prompt is pending, when nothing handles it yet:
\* a runtime that throws on unhandled rejections ends the process
FeedFailUnhandled ==
  /\ AtAwait /\ relay = "running"
  /\ rpc = "prompt"
  /\ relay' = "failed"
  /\ Exit("unhandledRejection")
  /\ UNCHANGED <<fixedVars, i, disk, localVars, rpc, call, data, lingering,
                 stdout, foreignDropped, countVars, report, caught, history>>

FeedFailLingering(k) ==
  /\ AtAwait /\ k \in lingering
  /\ lingering' = lingering \ {k}
  /\ \/ UNCHANGED <<pc, fatal>>
     \/ /\ ~k[2]
        /\ Exit("unhandledRejection")
  /\ UNCHANGED <<fixedVars, i, disk, localVars, rpc, call, data, relay,
                 stdout, foreignDropped, countVars, report, caught, history>>

(* --------------------------- specification ----------------------------- *)
\* the steps of main and of the request it awaits, with the service's answers
Program ==
  \/ StartPromptUnreadable \/ StartNoFiles \/ StartOk
  \/ ReadFileOk \/ ReadFileThrows
  \/ CreateSessionOk \/ CreateSessionFails
  \/ SubscribeOk \/ SubscribeThrows \/ SubscribeHangs
  \/ \E r \in Responses : PromptData(r)
  \/ PromptNoData \/ PromptThrows
  \/ RaceStreamDone \/ RaceTimeout \/ RaceRejects
  \/ NoChanges \/ DryRunPrint \/ Changed
  \/ WriteOk \/ WriteThrows
  \/ \E output \in BuildOutputs(i) : Check(output)
  \/ WriteRetryOk
  \/ \E output \in BuildOutputs(i) : FinalCheck(output)
  \/ Catch

\* what the event feed does to the relay tasks
Feed ==
  \/ \E e \in Events : FeedEvent(e)
  \/ FeedClose
  \/ \E k \in Sessions \X BOOLEAN : FeedCloseLingering(k)
  \/ FeedFail
  \/ FeedFailUnhandled
  \/ \E k \in Sessions \X BOOLEAN : FeedFailLingering(k)

Next == Program \/ Feed

Spec == Init /\ [][Next]_vars

(* ----------------------- extractCode on its own ------------------------ *)
\* a reply of three text parts: a preamble, a fenced block and a trailer
Preambles ==
  { <<>>, <<"o", "k">>, Fence, Fence \o <<NL, "Y", NL>> \o Fence }
OpeningTags ==
  { <<"c", "s", "h", "a", "r", "p">>, <<"c", "s">>,
    <<"C", "S", "h", "a", "r", "p">>, <<"C", "S">>, <<>> }
Interiors == { <<"A">>, <<"A", " ">>, <<"A", NL, "B">> }
Trailers == { <<>>, <<"o", "k">>, Fence }

Replies ==
  [pre : Preambles, tag : OpeningTags, body : Interiors, post : Trailers,
   closed : BOOLEAN]

\* data.parts of the reply a; a block that is not closed is a reply cut short
PartsOf(a) ==
  << TextPart(a.pre),
     TextPart(Fence \o a.tag \o <<NL>> \o a.body \o <<NL>>
                \o (IF a.closed THEN Fence ELSE <<>>)),
     TextPart(a.post) >>

\* a main that does not run: the values its variables have before it starts
NoRun ==
  /\ opts = [dryRun |-> FALSE, retryBuild |-> FALSE]
  /\ nfiles = 0
  /\ InitRun

ExtractInit ==
  /\ pc = "extractCode"
  /\ arg \in Replies
  /\ ret = <<>>
  /\ NoRun

\* return extractCode(data.parts)
ExtractCodeReturns ==
  /\ pc = "extractCode"
  /\ ret' = extractCode(PartsOf(arg))
  /\ pc' = "returned"
  /\ UNCHANGED <<opts, nfiles, arg, i, disk, localVars, rpc, call, data, feedVars,
                 countVars, report, caught, history, fatal>>

ExtractNext == ExtractCodeReturns

ExtractSpec == ExtractInit /\ [][ExtractNext]_vars

(* ---------------------- getBuildErrors on its own ---------------------- *)
\* most diagnostics one build output of these specifications holds
MaxLines == 2

\* paths a diagnostic may report: two files, one of them also written relative
\* to the working directory, and a file under a directory named p(1)
PathA == Cwd \o <<"/", "A", ".", "c", "s">>
PathARelative == <<"A", ".", "c", "s">>
PathB == Cwd \o <<"/", "B", ".", "c", "s">>
PathParen == <<"/", "p", "(", "1", ")", "/", "A", ".", "c", "s">>
ReportedPaths == {PathA, PathARelative, PathB, PathParen}
\* the absolute paths main may pass as filePath
TargetPaths == {PathA, PathParen}

Diagnostics ==
  [file : ReportedPaths, style : {"paren", "bracket", "indented"},
   sev : {"error", "warning"}]
DiagnosticLists == UNION {[1..n -> Diagnostics] : n \in 0..MaxLines}

BuildErrorsInit ==
  /\ pc = "getBuildErrors"
  /\ arg \in [lines : DiagnosticLists, filePath : TargetPaths]
  /\ ret = <<>>
  /\ NoRun

\* const errors = getBuildErrors(opts.retryBuild, filePath)
GetBuildErrorsReturns ==
  /\ pc = "getBuildErrors"
  /\ ret' = getBuildErrors(BuildText(arg.lines), arg.filePath)
  /\ pc' = "returned"
  /\ UNCHANGED <<opts, nfiles, arg, i, disk, localVars, rpc, call, data, feedVars,
                 countVars, report, caught, history, fatal>>

BuildErrorsNext == GetBuildErrorsReturns

BuildErrorsSpec == BuildErrorsInit /\ [][BuildErrorsNext]_vars

(* ------------------------- main's build filter ------------------------- *)
\* main up to the per-file loop, with the options of the build filter; arg is
\* what the world holds: the candidate files and what dotnet build reports
FilterInit ==
  /\ pc = "buildFilter"
  /\ opts \in [dryRun : {FALSE}, retryBuild : {FALSE},
                buildFilter : BOOLEAN, buildOutput : BOOLEAN]
  /\ arg \in [lines : DiagnosticLists, files : SUBSET {PathA, PathB}]
  /\ nfiles = Cardinality(arg.files)
  /\ ret = {}
  /\ InitRun

\* if (opts.buildFilter) is not taken
NoBuildFilter ==
  /\ pc = "buildFilter"
  /\ ~opts.buildFilter
  /\ pc' = "start"
  /\ UNCHANGED <<fixedVars, i, disk, localVars, rpc, call, data, feedVars,
                 countVars, report, caught, history, fatal>>

\* const errorFiles = getBuildErrorFiles(opts.buildFilter, !!opts.buildOutput):
\* the scan, and the raw output printed if (printOutput)
GetBuildErrorFilesReturns ==
  /\ pc = "buildFilter"
  /\ opts.buildFilter
  /\ ret' = getBuildErrorFiles(BuildText(arg.lines))
  /\ stdout' = IF opts.buildOutput THEN Append(stdout, "rawBuildOutput") ELSE stdout
  /\ pc' = "filtered"
  /\ UNCHANGED <<opts, nfiles, arg, i, disk, localVars, rpc, call, data, relay,
                 lingering, foreignDropped, countVars, report, caught, history, fatal>>

\* if (errorFiles.size === 0) { console.log("... Nothing to process."); process.exit(0); }
NothingToProcess ==
  /\ pc = "filtered"
  /\ ret = {}
  /\ stdout' = Append(stdout, "nothingToProcess")
  /\ Exit("nothingToProcess")
  /\ UNCHANGED <<fixedVars, i, disk, localVars, rpc, call, data, relay,
                 lingering, foreignDropped, countVars, report, caught, history>>

\* files = files.filter((f) => errorFiles.has(f))
FilterFiles ==
  /\ pc = "filtered"
  /\ ret # {}
  /\ nfiles' = Cardinality(arg.files \cap ret)
  /\ pc' = "start"
  /\ UNCHANGED <<opts, arg, ret, i, disk, localVars, rpc, call, data, feedVars,
                 countVars, report, caught, history, fatal>>

FilterNext ==
  \/ NoBuildFilter
  \/ GetBuildErrorFilesReturns
  \/ NothingToProcess
  \/ FilterFiles
  \/ StartNoFiles
  \/ StartOk

FilterSpec == FilterInit /\ [][FilterNext]_vars

(* ------------------------------ claims --------------------------------- *)
\* main has left the iteration of file f
Over(f) == f < i \/ (f = i /\ pc = "done")

\* C1: in the retry loop of one file the number of sendFollowUp calls never
\* exceeds maxRetries, whatever the compiler reports.
C1_FollowUpsBounded == \A f \in Files : followUps[f] <= maxRetries

\* every check of a file reported errors, and its loop ran to the end
C1_Witness ==
  \E f \in Files :
    /\ followUps[f] = maxRetries
    /\ checks[f] = maxRetries + 1
    /\ report[f] = "still"
    /\ Over(f)

\* C2: once getBuildErrors yields zero diagnostics for a file, no follow-up,
\* write or compiler invocation happens for that file any more; a clean first
\* check means zero follow-ups; and after the write of the maxRetries-th
\* follow-up one final check runs and its result is reported.
C2_StopsWhenClean ==
  /\ [][\A f \in Files :
          history[f].lastCheck = "clean"
            => /\ followUps'[f] = followUps[f]
               /\ writes'[f] = writes[f]
               /\ checks'[f] = checks[f]
               /\ disk'[f] = disk[f]]_vars
  /\ [](\A f \in Files :
          (history[f].lastCheck = "clean" /\ checks[f] = 1) => followUps[f] = 0)
  /\ [](\A f \in Files :
          writes[f] = maxRetries + 1
            => \/ f = i /\ pc = "finalCheck"
               \/ /\ history[f].finalCheck
                  /\ checks[f] = maxRetries + 1
                  /\ report[f] \in {"still", "succeeded"})

\* a loop that ended on a clean check after one follow-up, and main went on to
\* write and check the next file
C2_Witness ==
  \E f \in Files :
    /\ history[f].lastCheck = "clean"
    /\ followUps[f] = 1
    /\ checks[f] = 2
    /\ f < i
    /\ checks[i] >= 1

\* C3: the failure of a per-file step of file i never keeps main from reaching
\* the files after it; only an unreadable prompt file or an empty file list
\* ends the whole run.
C3_EveryFileReached ==
  (pc \in {"done", "fatal"} /\ fatal \notin {"promptFile", "noFiles"}) => i = nfiles

\* C4: a relay writes a fragment only for an event of the delta type whose
\* sessionID is the session id of the relay's own request.
C4_OnlyOwnDeltas ==
  \A n \in DOMAIN stdout :
    /\ stdout[n].type = DeltaType
    /\ stdout[n].props
    /\ stdout[n].sessionID = stdout[n].relaySid

\* a fragment was forwarded while a delta of another session was dropped
C4_Witness == Len(stdout) >= 1 /\ foreignDropped >= 1

\* C5: once the race of a request has completed, its relay task forwards no
\* further fragment.
C5_NoForwardAfterRace == \A n \in DOMAIN stdout : ~stdout[n].raceDone

\* C6: whatever the feed does, a request that was started is never left waiting
\* on the feed alone: as long as main is inside modifyFile or sendFollowUp, a
\* step of the request (sending the prompt, its answer, the end of the race)
\* remains possible, so the pipeline goes on to its next step.
C6_RequestProgresses == InCall => ENABLED Program

\* C7: when subscribing to the feed fails, the prompt is sent all the same and
\* the function returns the code of the prompt's response.
C7_SubscribeFailureTolerated ==
  call.sub = "failed"
    => /\ call.prompt # "notSent"
       /\ (call.prompt = "data" /\ call.result # "pending") => call.result = "returned"

\* C8: when session creation or a prompt request of a file fails (the initial
\* prompt or a follow-up), the failure is caught and logged for that file and
\* the file on disk still has its content of before the run.
C8_FailedFileUntouched ==
  \A f \in Files :
    history[f].transportFailed
      => /\ disk[f] = Orig(f)
         /\ (Over(f) \/ pc = "fatal") => caught[f]

\* C9: a file whose rewrite equals its original is reported as "no changes"
\* and gets no write, no compiler invocation and no follow-up.
C9_NoChangeNoEffects ==
  \A f \in Files :
    history[f].rewrite = "same"
      => /\ writes[f] = 0
         /\ checks[f] = 0
         /\ followUps[f] = 0
         /\ disk[f] = Orig(f)
         /\ Over(f) => report[f] = "nochange"

\* two files, both rewritten to their original content, with the retry target set
C9_Witness ==
  /\ nfiles >= 2
  /\ opts.retryBuild /\ ~opts.dryRun
  /\ pc = "done"
  /\ \A f \in 1..nfiles : history[f].rewrite = "same" /\ report[f] = "nochange"

\* C10: in preview mode nothing is written and the retry loop is never
\* entered; outside it a changed file is written exactly once before any
\* compiler check, and the loop is entered only with a retry target set.
C10_PreviewAndWriteOrder ==
  /\ opts.dryRun
       => \A f \in Files :
            writes[f] = 0 /\ checks[f] = 0 /\ followUps[f] = 0 /\ disk[f] = Orig(f)
  /\ \A f \in Files :
       checks[f] > 0 => history[f].writesAtFirstCheck = 1 /\ opts.retryBuild
  /\ \A f \in Files :
       (~opts.dryRun /\ history[f].rewrite = "differs" /\ Over(f) /\ ~caught[f])
         => writes[f] >= 1

\* preview mode met a changed file, with the retry target set
C10_Witness ==
  /\ opts.dryRun /\ opts.retryBuild
  /\ \E f \in Files :
       history[f].rewrite = "differs" /\ report[f] = "dryrun" /\ Over(f)

\* C11: exactly one session is created for each file whose request was started,
\* every prompt of a file (the initial one and each follow-up) carries the id
\* of that session, no id is carried by prompts of two files, and the retry
\* loop creates no session.
C11_OneSessionPerFile ==
  /\ \A f \in Files :
       /\ Len(history[f].sessions) <= 1
       /\ (f < i \/ (f = i /\ pc \notin {"readFile", "createSession", "fatal"}))
            => Len(history[f].sessions) = 1
       /\ \A s \in history[f].promptSessions :
            Len(history[f].sessions) = 1 /\ s = history[f].sessions[1]
  /\ \A f, g \in Files :
       f # g => history[f].promptSessions \cap history[g].promptSessions = {}

\* a file went through all its follow-ups and the next file sent its prompt
C11_Witness ==
  \E f, g \in Files :
    /\ f # g
    /\ followUps[f] = maxRetries
    /\ Over(f)
    /\ history[f].promptSessions # {}
    /\ history[g].promptSessions # {}

\* C12: whatever the compiler reports, one file sees at most maxRetries + 2
\* getBuildErrors calls and at most 1 + maxRetries writes, and a retry
\* iteration writes the file at most once (the writes of a file are the first
\* one plus one per follow-up at most).
C12_ChecksAndWritesBounded ==
  \A f \in Files :
    /\ checks[f] <= maxRetries + 2
    /\ writes[f] <= 1 + maxRetries
    /\ writes[f] <= 1 + followUps[f]

\* a loop in which every check reported errors, run to its end
C12_Witness ==
  \E f \in Files :
    /\ writes[f] = 1 + maxRetries
    /\ checks[f] = maxRetries + 1
    /\ history[f].finalCheck
    /\ history[f].lastCheck = "errors"
    /\ Over(f)

ContainsFence(t) == \E n \in 1..Len(t) : HasAt(t, n, Fence)

\* ASCII lower case of the letters a fence tag is written with
Lower(c) ==
  CASE c = "C" -> "c"
    [] c = "S" -> "s"
    [] c = "H" -> "h"
    [] c = "A" -> "a"
    [] c = "R" -> "r"
    [] c = "P" -> "p"
    [] OTHER -> c
LowerCase(t) == [n \in 1..Len(t) |-> Lower(t[n])]

\* C13: whatever the parts are, the string extractCode returns ends with
\* exactly one newline character and contains no block-fence marker, when a
\* fenced block was found and when the whole text was taken.
C13_OneNewlineNoFence ==
  pc = "returned"
    => /\ Len(ret) >= 1
       /\ ret[Len(ret)] = NL
       /\ (Len(ret) >= 2 => ret[Len(ret) - 1] # NL)
       /\ ~ContainsFence(ret)

\* C14: for the parts [P, a closed csharp block with interior X, T] extractCode
\* returns X and one newline, whatever P and T contain (X being an interior
\* that has no blank space at its end).
C14_BlockWinsOverSurroundings ==
  (/\ pc = "returned"
   /\ arg.closed
   /\ arg.tag = <<"c", "s", "h", "a", "r", "p">>
   /\ trimEnd(arg.body) = arg.body)
    => ret = arg.body \o <<NL>>

\* C15: a closed block whose opening fence spells csharp or cs in any letter
\* case is recognised: extractCode returns its interior, trimmed at the end,
\* and one newline, as it does for the lower-case tag (the preamble holding no
\* fence of its own).
C15_TagInAnyCase ==
  (/\ pc = "returned"
   /\ arg.closed
   /\ ~ContainsFence(arg.pre)
   /\ LowerCase(arg.tag) \in {<<"c", "s", "h", "a", "r", "p">>, <<"c", "s">>})
    => ret = trimEnd(arg.body) \o <<NL>>

\* the records the output holds for filePath: its error lines, in output order
ExpectedErrors(lines, filePath) ==
  LET own == SelectSeq(lines, LAMBDA d :
               d.sev = "error" /\ resolve(d.file) = resolve(filePath))
  IN [n \in 1..Len(own) |-> trim(RenderLine(own[n]))]

\* C16: from an output with N error lines located in file F, in either
\* location notation, and M lines of other files or lower severities,
\* getBuildErrors returns exactly those N lines, in output order, for every
\* target path F, one that contains a bracket character included.
C16_ExactlyTheErrorsOfTheFile ==
  pc = "returned" => ret = ExpectedErrors(arg.lines, arg.filePath)

\* C17: whenever main reports that the build succeeded with nothing to
\* process, the raw compiler output was printed before, with or without the
\* build-output option.
C17_RawOutputBeforeAllGood ==
  \A n \in DOMAIN stdout :
    stdout[n] = "nothingToProcess"
      => \E m \in 1..(n - 1) : stdout[m] = "rawBuildOutput"

\* C18: a retry loop that ends without an exception has reported exactly one
\* terminal outcome, which agrees with the last getBuildErrors call, made
\* after the last write of the file: success only if that call returned no
\* diagnostic, exhaustion only if it returned some after the maxRetries-th
\* follow-up was written.
C18_OutcomeMatchesLastCheck ==
  \A f \in Files :
    (Over(f) /\ checks[f] > 0 /\ ~caught[f])
      => /\ history[f].outcomes = 1
         /\ report[f] \in {"succeeded", "still"}
         /\ history[f].writesAtLastCheck = writes[f]
         /\ report[f] = "succeeded" => history[f].lastCheck = "clean"
         /\ report[f] = "still"
              => /\ history[f].lastCheck = "errors"
                 /\ followUps[f] = maxRetries
                 /\ writes[f] = maxRetries + 1

\* one loop ended exhausted, another succeeded at its final check
C18_Witness ==
  \E f, g \in Files :
    /\ Over(f) /\ Over(g)
    /\ ~caught[f] /\ ~caught[g]
    /\ report[f] = "still"
    /\ report[g] = "succeeded" /\ history[g].finalCheck

\* C19: across the requests of one session no delta event of the feed is
\* written to stdout twice: the relay of an earlier request forwards nothing
\* while the relay of a later request is active.
C19_EachDeltaWrittenOnce ==
  \A m, n \in DOMAIN stdout : m # n => stdout[m].event # stdout[n].event

\* C20: when iterating the feed fails, be it while the prompt is pending or
\* during the race, the response is not lost: a request whose prompt resolved
\* with data returns the extracted code, and the rejection of the relay task
\* neither reaches the caller nor ends the run.
C20_FeedFailureLosesNothing ==
  /\ (call.prompt = "data" /\ call.result # "pending") => call.result = "returned"
  /\ fatal # "unhandledRejection"

====
